---- MODULE Spec2Model ----
(***************************************************************************)
(* Model of visbrain's signal browser back-end (signal/visuals.py:         *)
(* SignalAnnotations, SignalVisual, Visuals) and of the source-estimation  *)
(* plot helper (mne/plot_fwd.py: mne_plot_source_estimation).              *)
(*                                                                         *)
(* Arrays are records [shape, flat]: the shape tuple and the values in     *)
(* row-major order.  Python strings that the code builds or parses are     *)
(* sequences of one-character strings.  Python's None is the string "None" *)
(* inside records whose other values are tagged, see each use.             *)
(***************************************************************************)
EXTENDS Integers, Sequences, FiniteSets, TLC

VARIABLES
    call,      \* the last call made: its name, its arguments, what it raised
    visuals,   \* the Visuals object: the stored data array
    signal,    \* the SignalVisual object (annotation fields included)
    brain      \* the BrainObj of mne_plot_source_estimation: activations added

vars == <<call, visuals, signal, brain>>

\* ------------------------------------------------------------------ bounds

\* Largest length of one dimension of the data array.
MaxDim == 2

\* Largest number of annotations held at once, over all signals.
MaxAnnotations == 2

\* Largest x or y of an annotation's coordinates (the smallest is 1).
MaxCoord == 2

\* Largest number of active vertices of one hemisphere.
MaxVert == 2

\* The length of the one long row of signals, whose indices take two digits.
WideDim == 11

\* ------------------------------------------------------- python and numpy

None == "None"

\* The value of a variable whose object does not exist.
NoObject == <<>>

RECURSIVE Prod(_)
\* Product of the entries of a shape tuple.
Prod(s) == IF s = <<>> THEN 1 ELSE Head(s) * Prod(Tail(s))

\* seq[i] with python's indexing: 0-based, negative i counts from the end.
PyInRange(seq, i) == (-Len(seq) <= i) /\ (i <= Len(seq) - 1)
PyGet(seq, i) == IF i >= 0 THEN seq[i + 1] ELSE seq[Len(seq) + i + 1]

\* list.insert(i, x): before position i, clamped to the ends of the list.
ListInsert(lst, i, x) ==
    LET n == Len(lst)
        p == IF i < 0 THEN (IF n + i < 0 THEN 0 ELSE n + i)
             ELSE (IF i > n THEN n ELSE i)
    IN  SubSeq(lst, 1, p) \o <<x>> \o SubSeq(lst, p + 1, n)

\* np.arange(n)
Arange(n) == [shape |-> <<n>>, flat |-> [k \in 1..n |-> k - 1]]

\* np.arange(prod(shape)).reshape(shape)
NdArray(shape) == [shape |-> shape, flat |-> [k \in 1..Prod(shape) |-> k - 1]]

\* array.reshape(shape)
Reshape(a, shape) == [shape |-> shape, flat |-> a.flat]

\* len(array)
NpLen(a) == a.shape[1]

\* list(itertools.product(range(a), range(b)))
ProductRange(a, b) == [k \in 1..(a * b) |-> <<(k - 1) \div b, (k - 1) % b>>]

\* The 0-based position in a.flat of the element at the full index tuple idx.
RECURSIVE FlatPos(_, _)
FlatPos(shape, idx) ==
    IF shape = <<>> THEN 0
    ELSE LET n == Len(shape)
         IN  FlatPos(SubSeq(shape, 1, n - 1), SubSeq(idx, 1, n - 1)) * shape[n]
             + idx[n]

\* Each entry of the index list idx is an integer or Slice (python's
\* slice(None)), told apart by the tag: <<"i", k>> or <<"s">>.
Slice == <<"s">>
Ix(k) == <<"i", k>>
IsSlice(e) == e[1] = "s"

\* Whether data[idx] is within bounds (numpy raises IndexError otherwise):
\* as many entries as dimensions, each integer within its dimension.
NpIndexOk(a, idx) ==
    /\ Len(idx) <= Len(a.shape)
    /\ \A d \in 1..Len(idx) :
          IsSlice(idx[d]) \/ ((-a.shape[d] <= idx[d][2]) /\ (idx[d][2] < a.shape[d]))

\* data[idx] for a full index list with exactly one slice in it: the 1-D array
\* of the elements met along the sliced dimension.
NpTake(a, idx) ==
    LET d == CHOOSE e \in 1..Len(idx) : IsSlice(idx[e])
        at(t) == [e \in 1..Len(idx) |->
                    IF e = d THEN t
                    ELSE IF idx[e][2] < 0 THEN a.shape[e] + idx[e][2]
                    ELSE idx[e][2]]
    IN  [shape |-> <<a.shape[d]>>,
         flat  |-> [t \in 1..a.shape[d] |-> a.flat[FlatPos(a.shape, at(t - 1)) + 1]]]

\* array.min() and array.max() of a non-empty array.
NpMin(a) == CHOOSE v \in {a.flat[k] : k \in 1..Len(a.flat)} :
                \A k \in 1..Len(a.flat) : v <= a.flat[k]
NpMax(a) == CHOOSE v \in {a.flat[k] : k \in 1..Len(a.flat)} :
                \A k \in 1..Len(a.flat) : v >= a.flat[k]

\* ----------------------------------------------------------- python strings

Digits == <<"0", "1", "2", "3", "4", "5", "6", "7", "8", "9">>

RECURSIVE IntStr(_)
\* str(k) of an integer k >= 0: its decimal digits.
IntStr(k) == IF k < 10 THEN <<Digits[k + 1]>>
             ELSE IntStr(k \div 10) \o <<Digits[(k % 10) + 1]>>

\* Whether int(s) parses: s is a non-empty run of decimal digits.
IsInt(s) == (s # <<>>) /\ (\A i \in 1..Len(s) : \E d \in 1..10 : Digits[d] = s[i])

RECURSIVE ParseInt(_)
\* int(s) of a run of decimal digits.
ParseInt(s) ==
    IF s = <<>> THEN 0
    ELSE LET n == Len(s)
             d == CHOOSE e \in 1..10 : Digits[e] = s[n]
         IN  ParseInt(SubSeq(s, 1, n - 1)) * 10 + (d - 1)

\* s.startswith(p)
StartsWith(s, p) == (Len(p) <= Len(s)) /\ (SubSeq(s, 1, Len(p)) = p)

RECURSIVE StrReplace(_, _, _)
\* s.replace(old, new), old not empty: every occurrence, from the left.
StrReplace(s, old, new) ==
    IF s = <<>> THEN <<>>
    ELSE IF StartsWith(s, old)
         THEN new \o StrReplace(SubSeq(s, Len(old) + 1, Len(s)), old, new)
         ELSE <<Head(s)>> \o StrReplace(Tail(s), old, new)

RECURSIVE StrSplit(_, _, _)
\* s.split(sep): the list of the pieces between the occurrences of sep;
\* cur is the piece being read.
StrSplit(s, sep, cur) ==
    IF s = <<>> THEN <<cur>>
    ELSE IF StartsWith(s, sep)
         THEN <<cur>> \o StrSplit(SubSeq(s, Len(sep) + 1, Len(s)), sep, <<>>)
         ELSE StrSplit(Tail(s), sep, Append(cur, Head(s)))

RECURSIVE StrJoin(_, _)
\* sep.join(lst)
StrJoin(sep, lst) ==
    IF lst = <<>> THEN <<>>
    ELSE IF Len(lst) = 1 THEN lst[1]
    ELSE lst[1] \o sep \o StrJoin(sep, Tail(lst))

CommaSpace == <<",", " ">>

\* -------------------------------------------------------- SignalAnnotations

\* SignalAnnotations.__init__: the fields it gives the object self.  The two
\* dictionaries are functions from signal names to lists, empty at first.
SignalAnnotationsInit(self) ==
    [self EXCEPT !.annotations        = <<>>,
                 !.annotations_txt    = <<>>,
                 !.annot_mark_visible = FALSE,
                 !.annot_mark_data    = <<>>,
                 !.annot_text_visible = FALSE,
                 !.annot_text         = None,
                 !.annot_text_pos     = <<>>]

\* d[key] = value on a dictionary without the key.
DictSet(d, key, value) ==
    [k \in (DOMAIN d) \cup {key} |-> IF k = key THEN value ELSE d[k]]

\* is_event_annotated(name)
is_event_annotated(self, name) == name \in DOMAIN self.annotations

\* get_event_coord(name)
get_event_coord(self, name) ==
    IF is_event_annotated(self, name) THEN self.annotations[name] ELSE <<>>

\* add_annotations(signal, coord, text): one more row under the signal's
\* name, or the first row of a new name.
add_annotations(self, name, coord, text) ==
    IF name \in DOMAIN self.annotations
    THEN [self EXCEPT !.annotations[name] = Append(@, coord),
                      !.annotations_txt[name] = Append(@, text)]
    ELSE [self EXCEPT !.annotations = DictSet(@, name, <<coord>>),
                      !.annotations_txt = DictSet(@, name, <<text>>)]

\* A coordinate argument is the tuple itself, <<"t", <<x, y>>>>, or its
\* string form '(x, y)', <<"s", chars>>.
CoordTuple(xy) == <<"t", xy>>
CoordStr(xy) ==
    <<"s", <<"(">> \o IntStr(xy[1]) \o CommaSpace \o IntStr(xy[2]) \o <<")">> >>

\* _coord_to_tuple(coord): a string is cut at ', ' between its first and last
\* characters and each piece converted; a tuple is returned as it is.
coord_to_tuple(coord) ==
    IF coord[1] = "s"
    THEN LET inner  == SubSeq(coord[2], 2, Len(coord[2]) - 1)
             pieces == StrSplit(inner, CommaSpace, <<>>)
         IN  [k \in 1..Len(pieces) |-> ParseInt(pieces[k])]
    ELSE coord[2]

\* np.where(coords == coord): the (row, column) places, 0-based and in
\* row-major order, where the entry of coords equals the entry of coord in
\* the same column.
WhereEqual(coords, coord) ==
    LET places == [k \in 1..(2 * Len(coords)) |-> <<(k - 1) \div 2, (k - 1) % 2>>]
        hit(p) == coords[p[1] + 1][p[2] + 1] = coord[p[2] + 1]
    IN  SelectSeq(places, hit)

\* The test of _get_coord_index on the places found: the columns of the
\* places are exactly [0, 1].
ColumnsMatch(idx) == [k \in 1..Len(idx) |-> idx[k][2]] = <<0, 1>>

\* _get_coord_index(signal, coord): (row, coord), or (None, None) as
\* [isNone |-> TRUE].
get_coord_index(self, name, coord) ==
    IF is_event_annotated(self, name)
    THEN LET coords == self.annotations[name]
             c      == coord_to_tuple(coord)
             idx    == WhereEqual(coords, c)
         IN  IF ColumnsMatch(idx)
             THEN [isNone |-> FALSE, row |-> idx[1][1], coord |-> c]
             ELSE [isNone |-> TRUE, row |-> 0, coord |-> <<>>]
    ELSE [isNone |-> TRUE, row |-> 0, coord |-> <<>>]

\* set_text(signal, coord, text)
set_text(self, name, coord, text) ==
    LET r == get_coord_index(self, name, coord)
    IN  IF ~r.isNone
        THEN [self EXCEPT !.annotations_txt[name][r.row + 1] = text,
                          !.annot_text = text]
        ELSE self

\* select_annotation(signal, coord)
select_annotation(self, name, coord) ==
    LET r == get_coord_index(self, name, coord)
        is_coord == ~r.isNone
    IN  IF is_coord
        THEN [self EXCEPT !.annot_text = self.annotations_txt[name][r.row + 1],
                          !.annot_text_pos = r.coord \o <<-20>>,
                          !.annot_text_visible = is_coord]
        ELSE [self EXCEPT !.annot_text_visible = is_coord]

\* ------------------------------------------------------------- SignalVisual

\* The three draw primitives a form can name.
Forms == {"line", "marker", "histogram"}

\* SignalVisual.__init__(time, sf, sh, axis, form, color, lw, symbol, size,
\* nbins).  rect is held in hundredths: (0., 0., 1., 1.) is <<0, 0, 100, 100>>.
\* The four visuals are created visible and the threshold line is hidden;
\* drawn is what the most recent set_data of a draw primitive was given.
\* The annotation fields are unset until SignalAnnotations.__init__ runs.
SignalVisualInit(time, sf, sh, axis, form, color, lw, symbol, size, nbins) ==
    SignalAnnotationsInit(
    [form         |-> form,
     time         |-> time,
     sf           |-> sf,
     axis         |-> axis,
     index        |-> 0,
     allidx       |-> ProductRange(sh[1], sh[2]),
     color        |-> color,
     lw           |-> lw,
     nbins        |-> nbins,
     symbol       |-> symbol,
     size         |-> size,
     rect         |-> <<0, 0, 100, 100>>,
     th_visible   |-> FALSE,
     line_visible |-> TRUE,
     mark_visible |-> TRUE,
     hist_visible |-> TRUE,
     drawn        |-> [visual |-> None, data |-> <<>>],
     annotations        |-> None,
     annotations_txt    |-> None,
     annot_mark_visible |-> None,
     annot_mark_data    |-> None,
     annot_text_visible |-> None,
     annot_text         |-> None,
     annot_text_pos     |-> None])

\* __str__: the selected (row, column) pair with ':' inserted at the time
\* axis, as '(a, b, :)'.  Defined when _allidx[_index] is.
SignalStr(self) ==
    LET pair == PyGet(self.allidx, self.index)
        lst0 == [k \in 1..Len(pair) |-> IntStr(pair[k])]
        lst  == ListInsert(lst0, self.axis, <<":">>)
    IN  <<"(">> \o StrJoin(CommaSpace, lst) \o <<")">>

\* A faulty variant of StripColon: only ', :' is removed.
StripColonAfterOnly(name) ==
    LET a == StrReplace(name, <<",", " ", ":">>, <<>>)
    IN  SubSeq(a, 2, Len(a) - 1)

\* The first replace of _get_signal_index, then the second, then [1:-1].
StripColon(name) ==
    LET a == StrReplace(name, <<",", " ", ":">>, <<>>)
        b == StrReplace(a, <<":", ",", " ">>, <<>>)
    IN  SubSeq(b, 2, Len(b) - 1)

\* _get_signal_index(signal): the position in _allidx of the tuple of
\* integers read from the string; ValueError when a piece is no integer or
\* the tuple is not in the list.
get_signal_index(self, name) ==
    LET pieces == StrSplit(StripColon(name), CommaSpace, <<>>)
    IN  IF \E k \in 1..Len(pieces) : ~IsInt(pieces[k])
        THEN [raised |-> "ValueError", value |-> 0]
        ELSE LET idx  == [k \in 1..Len(pieces) |-> ParseInt(pieces[k])]
                 hits == {k \in 1..Len(self.allidx) : self.allidx[k] = idx}
             IN  IF hits = {}
                 THEN [raised |-> "ValueError", value |-> 0]
                 ELSE [raised |-> None,
                       value  |-> (CHOOSE k \in hits : \A j \in hits : k <= j) - 1]

\* A faulty variant of visibility: the primitive named is shown and the
\* others are left as they are.
visibilityShowOnly(self) ==
    [self EXCEPT !.line_visible = @ \/ (self.form = "line"),
                 !.mark_visible = @ \/ (self.form = "marker"),
                 !.hist_visible = @ \/ (self.form = "histogram")]

\* _visibility(): each primitive is visible when form names it.
visibility(self) ==
    [self EXCEPT !.line_visible = (self.form = "line"),
                 !.mark_visible = (self.form = "marker"),
                 !.hist_visible = (self.form = "histogram")]

\* update_annotations(name)
update_annotations(self, name) ==
    LET is_annotated == is_event_annotated(self, name)
    IN  [self EXCEPT !.annot_mark_data = IF is_annotated
                                         THEN get_event_coord(self, name) ELSE @,
                     !.annot_mark_visible = is_annotated,
                     !.annot_text_visible = is_annotated]

\* PrepareData._prepare_data(sf, data, time) with the preparation switched
\* off (no demean, detrend or filter), as a new PrepareData() is: the data.
prepare_data(sf, data, time) == data

\* np.histogram(data, nbins)[0] of a non-empty integer array: the number of
\* samples in each of nbins equal bins between min and max (the last bin
\* closed); when min = max the range is widened by 0.5 on each side.
NpHistogram(data, nbins) ==
    LET mn == NpMin(data)
        mx == NpMax(data)
        bin(v) == IF mn = mx THEN nbins \div 2
                  ELSE IF v = mx THEN nbins - 1
                  ELSE ((v - mn) * nbins) \div (mx - mn)
    IN  [b \in 1..nbins |->
            Cardinality({k \in 1..Len(data.flat) : bin(data.flat[k]) = b - 1})]

\* The camera rectangle of a line or marker plot, in hundredths:
\* (t_min, d_min - off, t_max - t_min, d_max - d_min + 2 * off), off being
\* .05 * (d_max - d_min).
RectLine(time, data) ==
    LET t_min == NpMin(time)
        t_max == NpMax(time)
        d_min == NpMin(data)
        d_max == NpMax(data)
        off   == 5 * (d_max - d_min)
    IN  <<100 * t_min, 100 * d_min - off, 100 * (t_max - t_min),
          100 * (d_max - d_min) + 2 * off>>

\* The camera rectangle of a histogram, in hundredths: the bin edges' range
\* and (0.9 * the smallest non-zero count, 1.01 * the largest count).
RectHist(data, nbins) ==
    LET raw   == NpHistogram(data, nbins)
        mn    == NpMin(data)
        mx    == NpMax(data)
        t_min == IF mn = mx THEN 100 * mn - 50 ELSE 100 * mn
        t_max == IF mn = mx THEN 100 * mx + 50 ELSE 100 * mx
        pos   == {raw[b] : b \in 1..nbins} \ {0}
        d_min == 90 * (CHOOSE c \in pos : \A e \in pos : c <= e)
        d_max == 101 * (CHOOSE c \in pos : \A e \in pos : c >= e)
    IN  <<t_min, d_min, t_max - t_min, d_max - d_min>>

\* The assignments that open set_data: form and index are stored, and each
\* of color, lw, nbins, symbol and size when it is not None.
StoreArguments(self, a) ==
    [self EXCEPT !.form   = a.form,
                 !.index  = a.index,
                 !.color  = IF a.color # None THEN a.color ELSE @,
                 !.lw     = IF a.lw # <<>> THEN a.lw[1] ELSE @,
                 !.nbins  = IF a.nbins # <<>> THEN a.nbins[1] ELSE @,
                 !.symbol = IF a.symbol # None THEN a.symbol ELSE @,
                 !.size   = IF a.size # <<>> THEN a.size[1] ELSE @]

\* The test that guards the index: index < len(self._allidx).
IndexAccepted(self, index) == index < Len(self.allidx)

\* The drawing part of set_data, once the slice is prepared.
Draw(self, a, d) ==
    IF a.form \in {"line", "marker"}
    THEN [self EXCEPT !.th_visible = IF a.form = "line" THEN a.th # <<>> ELSE @,
                      !.drawn = [visual |-> a.form, data |-> d.flat],
                      !.rect  = RectLine(self.time, d)]
    ELSE IF a.form = "histogram"
    THEN [self EXCEPT !.drawn = [visual |-> a.form, data |-> d.flat],
                      !.rect  = RectHist(d, self.nbins)]
    ELSE self

\* set_data(data, index, color, lw, nbins, symbol, size, form, th), the
\* arguments in the record a (a number that may be None is <<>> or <<n>>, th
\* is <<>> or the pair).  The result is the exception raised, or None, and
\* the object as the call leaves it.  data[idx] indexes with the list as
\* with a tuple.
set_data(self, data, a) ==
    LET s1 == StoreArguments(self, a)
    IN  IF ~IndexAccepted(s1, a.index)
        THEN [raised |-> "ValueError", self |-> s1]
        ELSE IF ~PyInRange(s1.allidx, a.index)
        THEN [raised |-> "IndexError", self |-> s1]
        ELSE
        LET pair == PyGet(s1.allidx, a.index)
            idx  == ListInsert([k \in 1..Len(pair) |-> Ix(pair[k])], s1.axis, Slice)
        IN  IF ~NpIndexOk(data, idx)
            THEN [raised |-> "IndexError", self |-> s1]
            ELSE
            LET d == prepare_data(s1.sf, NpTake(data, idx), s1.time)
            IN  IF a.form \in {"line", "marker"} /\ NpLen(s1.time) # NpLen(d)
                THEN [raised |-> "ValueError: shapes", self |-> s1]
                ELSE LET s2 == visibility(Draw(s1, a, d))
                     IN  [raised |-> None,
                          self   |-> update_annotations(s2, SignalStr(s2))]

\* ------------------------------------------------------------------ Visuals

\* np.sign(axis)
Sign(n) == IF n > 0 THEN 1 ELSE IF n < 0 THEN -1 ELSE 0

\* A faulty variant of AxisTooBig: the bound is off by one.
AxisTooBigOffByOne(data, axis) == (Sign(axis) = 1) /\ (axis > Len(data.shape))

\* The axis check: (np.sign(axis) == 1) and (axis > data.ndim - 1).
AxisTooBig(data, axis) == (Sign(axis) = 1) /\ (axis > Len(data.shape) - 1)

\* axis = data.ndim - 1 if axis == -1 else axis
NormAxis(data, axis) == IF axis = -1 THEN Len(data.shape) - 1 ELSE axis

\* The time check: (time.ndim > 1 and len(time)) > data.shape[axis].  The
\* parenthesis is False, which compares as 0, unless time has more than one
\* dimension, and is len(time) then.
TimeTooLong(data, time, axis) ==
    (IF Len(time.shape) > 1 THEN NpLen(time) ELSE 0) > PyGet(data.shape, axis)

\* The data as stored and the axis as handed on: 1-d data is reshaped to
\* (1, 1, -1) with the last axis, 2-d data gets a new first dimension and
\* axis + 1.
StoreData(data, axis) ==
    IF Len(data.shape) = 1
    THEN [data |-> Reshape(data, <<1, 1, Prod(data.shape)>>), axis |-> 2]
    ELSE IF Len(data.shape) = 2
    THEN [data |-> Reshape(data, <<1>> \o data.shape), axis |-> axis + 1]
    ELSE [data |-> data, axis |-> axis]

\* sh_2d = tuple(k for i, k in enumerate(data.shape) if i != axis)
Sh2d(shape, axis) ==
    LET keep(i) == i - 1 # axis
    IN  [k \in 1..Len(SelectSeq([i \in 1..Len(shape) |-> i], keep)) |->
            shape[SelectSeq([i \in 1..Len(shape) |-> i], keep)[k]]]

\* Visuals.__init__(data, time, sf, axis, form, color, lw, symbol, size,
\* nbins): time is <<>> for None or <<array>>.  The result is the exception
\* raised, or None with the two objects built.
VisualsInit(data, time, sf, axis, form, color, lw, symbol, size, nbins) ==
    IF AxisTooBig(data, axis)
    THEN [raised |-> "ValueError: axis"]
    ELSE
    LET axis1 == NormAxis(data, axis)
    IN  IF ~PyInRange(data.shape, axis1)
        THEN [raised |-> "IndexError"]
        ELSE
        LET time1 == IF time = <<>> THEN Arange(PyGet(data.shape, axis1))
                     ELSE time[1]
        IN  IF TimeTooLong(data, time1, axis1)
            THEN [raised |-> "ValueError: time"]
            ELSE
            LET st == StoreData(data, axis1)
                sh == Sh2d(st.data.shape, st.axis)
            IN  [raised  |-> None,
                 visuals |-> [data |-> st.data],
                 signal  |-> SignalVisualInit(time1, sf, sh, st.axis, form, color,
                                              lw, symbol, size, nbins)]

\* ----------------------------------------------- mne_plot_source_estimation

\* The hemispheres of _hemi, by name: 0 is the left one, 1 the right one.
Hemi(name) == IF name = "left" THEN <<0>> ELSE IF name = "right" THEN <<1>>
              ELSE <<0, 1>>

\* _extract_arrays_from_src(src, hemisphere): len(activ), src given by the
\* number of active vertices (vertno) of each hemisphere.
ActiveVertLen(nvert, name) ==
    LET h == Hemi(name)
    IN  IF Len(h) = 1 THEN nvert[h[1] + 1] ELSE nvert[1] + nvert[2]

\* hemisphere is 'left': the argument is the literal's own string object.  A
\* string equal to the literal is the same object when it is interned, which
\* the caller decides (a literal is, a string built at run time is not).
IsLiteral(hemisphere, literal) == hemisphere.same /\ hemisphere.value = literal

\* len(a[0:k]) and len(a[-k::]) of an array of n entries, k >= 0.
LenHead(n, k) == IF k < n THEN k ELSE n
LenTail(n, k) == IF k = 0 THEN n ELSE IF k < n THEN k ELSE n

\* The length of the data taken from the stc file once cut to the
\* hemisphere: rows is the number of rows of the file's data and l_vert is
\* len(active_vert).
StcDataLen(rows, l_vert, hemisphere) ==
    IF IsLiteral(hemisphere, "left") THEN LenHead(rows, l_vert)
    ELSE IF IsLiteral(hemisphere, "right") THEN LenTail(rows, l_vert)
    ELSE rows

\* The final step: add_activation when active_data is an array; its min()
\* and max() are taken first and raise on an empty array.
AddActivation(data_len, vert_len) ==
    IF data_len = 0
    THEN [raised |-> "ValueError", activations |-> <<>>]
    ELSE [raised |-> None,
          activations |-> <<[data |-> data_len, vertices |-> vert_len]>>]

\* mne_plot_source_estimation(..., stc_file, hemisphere, active_data): the
\* exception raised, or None, and the add_activation calls made on the
\* BrainObj, each by the lengths of its data and vertices.  a.nvert is the
\* number of active vertices of the two hemispheres of the forward solution;
\* a.active_data is <<"ndarray", len>>, <<"int", n>> or <<"other">>;
\* a.stc_file is <<>> for None or <<[isfile, ntimes]>>, and the file's data
\* has one row per active vertex of the two hemispheres.
mne_plot_source_estimation(a) ==
    LET l_vert == ActiveVertLen(a.nvert, a.hemisphere.value)
    IN  IF a.active_data[1] = "ndarray"
        THEN IF a.active_data[2] # l_vert
             THEN [raised |-> None, activations |-> <<>>]
             ELSE AddActivation(a.active_data[2], l_vert)
        ELSE IF a.stc_file # <<>> /\ a.active_data[1] = "int"
        THEN LET stc  == a.stc_file[1]
                 n_tp == a.active_data[2]
                 rows == a.nvert[1] + a.nvert[2]
             IN  IF ~stc.isfile
                 THEN [raised |-> "AssertionError", activations |-> <<>>]
                 ELSE IF ~((-stc.ntimes <= n_tp) /\ (n_tp < stc.ntimes))
                 THEN [raised |-> "IndexError", activations |-> <<>>]
                 ELSE IF rows = 0
                 THEN [raised |-> "ValueError", activations |-> <<>>]
                 ELSE AddActivation(StcDataLen(rows, l_vert, a.hemisphere), l_vert)
        ELSE [raised |-> None, activations |-> <<>>]

\* --------------------------------------------------------------- arguments

\* The data arrays given to Visuals: 1 to 3 dimensions of 1..MaxDim each.
Dims == 1..MaxDim
Shapes1 == {<<a>> : a \in Dims}
Shapes2 == {<<a, b>> : a, b \in Dims}
Shapes3 == {<<a, b, c>> : a, b, c \in Dims}
DataArgs == {NdArray(shape) : shape \in Shapes1 \cup Shapes2 \cup Shapes3}

\* The axis arguments: from below every dimension to above every dimension.
AxisArgs == (-4)..3

\* The time arguments: None, a vector of 1..MaxDim+1 samples, and the same as
\* a column (2-D).
TimeArgs ==
    {<<>>}
    \cup {<<Arange(n)>> : n \in 1..(MaxDim + 1)}
    \cup {<<Reshape(Arange(n), <<n, 1>>)>> : n \in 1..(MaxDim + 1)}

\* Visuals(...) with the sampling frequency 1 and the defaults of the plot.
NewVisuals(data, time, axis) ==
    VisualsInit(data, time, 1, axis, "line", "black", 2, "o", 10, 10)

\* The arguments of set_data other than data, index and form.
NoStyle == [color |-> None, lw |-> <<>>, nbins |-> <<>>, symbol |-> None,
            size |-> <<>>]
StyleArgs ==
    {NoStyle,
     [color |-> "red", lw |-> <<3>>, nbins |-> <<2>>, symbol |-> "x",
      size |-> <<5>>]}
ThArgs == {<<>>, <<0, 1>>}
FormArgs == Forms \cup {"bar"}

\* The index arguments: every index of _allidx, the negative ones python
\* accepts, and one or two beyond each end.
IndexArgs(self) == (-(Len(self.allidx) + 1))..(Len(self.allidx) + 1)
ValidIndexes(self) == 0..(Len(self.allidx) - 1)

\* The names of the signals, as str(self) gives them for each valid index.
NameArgs(self) == {SignalStr([self EXCEPT !.index = i]) : i \in ValidIndexes(self)}

CoordArgs == (1..MaxCoord) \X (1..MaxCoord)
TextArgs == {"a"}

\* The number of annotations held, over all signals.
RECURSIVE SumLen(_, _)
SumLen(f, keys) ==
    IF keys = {} THEN 0
    ELSE LET k == CHOOSE e \in keys : TRUE
         IN  Len(f[k]) + SumLen(f, keys \ {k})
AnnotationCount(self) == SumLen(self.annotations, DOMAIN self.annotations)

\* ----------------------------------------------------------------- actions

\* Visuals(data, time, sf, axis, ...), once: a constructor that raises
\* leaves no object.
VisualsNew ==
    /\ call.op = "none"
    /\ \E data \in DataArgs, time \in TimeArgs, axis \in AxisArgs :
        LET r == NewVisuals(data, time, axis)
        IN  /\ call' = [op |-> "Visuals", raised |-> r.raised,
                        args |-> [data |-> data, time |-> time, axis |-> axis]]
            /\ visuals' = (IF r.raised = None THEN r.visuals ELSE NoObject)
            /\ signal' = (IF r.raised = None THEN r.signal ELSE NoObject)
            /\ UNCHANGED brain

\* signal.set_data(self._data, index, ..., form=form, th=th) with the
\* arguments drawn from the given sets.
SetDataWith(indexes, forms, styles, ths) ==
    \E index \in indexes, form \in forms, style \in styles, th \in ths :
        LET a == [index |-> index, form |-> form, th |-> th,
                  color |-> style.color, lw |-> style.lw, nbins |-> style.nbins,
                  symbol |-> style.symbol, size |-> style.size]
            r == set_data(signal, visuals.data, a)
        IN  /\ call' = [op |-> "set_data", raised |-> r.raised,
                        args |-> [index |-> index, form |-> form]]
            /\ signal' = r.self
            /\ UNCHANGED <<visuals, brain>>

SetData == SetDataWith(IndexArgs(signal), FormArgs, StyleArgs, ThArgs)

\* Browsing the signals: set_data with any index and any of the three forms,
\* the rest left at its default.
Browse == SetDataWith(IndexArgs(signal), Forms, {NoStyle}, {<<>>})

\* Moving to another signal of the grid: set_data with a valid index and
\* everything else left at its default.
SelectSignal == SetDataWith(ValidIndexes(signal), {"line"}, {NoStyle}, {<<>>})

\* signal.add_annotations(name, coord, text)
AddAnnotationsWith(names, coords, texts, max) ==
    /\ AnnotationCount(signal) < max
    /\ \E name \in names, coord \in coords, text \in texts :
        /\ call' = [op |-> "add_annotations", raised |-> None,
                    args |-> [signal |-> name, coord |-> coord, text |-> text]]
        /\ signal' = add_annotations(signal, name, coord, text)
        /\ UNCHANGED <<visuals, brain>>

AddAnnotations ==
    AddAnnotationsWith(NameArgs(signal), CoordArgs, {"Enter your annotation"},
                       MaxAnnotations)

\* Annotating the signal on display, at one place and with the default text.
AnnotateCurrent ==
    /\ PyInRange(signal.allidx, signal.index)
    /\ AddAnnotationsWith({SignalStr(signal)}, {<<1, 1>>},
                          {"Enter your annotation"}, 1)

\* signal.select_annotation(name, coord), coord a tuple or its string.
SelectAnnotation ==
    \E name \in NameArgs(signal), xy \in CoordArgs :
        \E coord \in {CoordTuple(xy), CoordStr(xy)} :
            /\ call' = [op |-> "select_annotation", raised |-> None,
                        args |-> [signal |-> name, coord |-> coord, xy |-> xy]]
            /\ signal' = select_annotation(signal, name, coord)
            /\ UNCHANGED <<visuals, brain>>

\* signal.set_text(name, coord, text)
SetText ==
    \E name \in NameArgs(signal), xy \in CoordArgs, text \in TextArgs :
        \E coord \in {CoordTuple(xy), CoordStr(xy)} :
            /\ call' = [op |-> "set_text", raised |-> None,
                        args |-> [signal |-> name, coord |-> coord, xy |-> xy,
                                  text |-> text]]
            /\ signal' = set_text(signal, name, coord, text)
            /\ UNCHANGED <<visuals, brain>>

\* The arguments of mne_plot_source_estimation.
HemisphereArgs ==
    [value : {"left", "right", "both"}, same : BOOLEAN]
ActiveDataArgs ==
    {<<"ndarray", n>> : n \in 0..(2 * MaxVert)}
    \cup {<<"int", n>> : n \in 0..1}
    \cup {<<"other">>}
StcFileArgs == {<<>>} \cup {<<f>> : f \in [isfile : BOOLEAN, ntimes : {1}]}

\* mne_plot_source_estimation(...), once, on a forward solution with up to
\* MaxVert active vertices in each hemisphere.
MnePlot ==
    /\ call.op = "none"
    /\ \E nvert \in (0..MaxVert) \X (0..MaxVert), hemisphere \in HemisphereArgs,
       active_data \in ActiveDataArgs, stc_file \in StcFileArgs :
        LET a == [nvert |-> nvert, hemisphere |-> hemisphere,
                  active_data |-> active_data, stc_file |-> stc_file]
            r == mne_plot_source_estimation(a)
        IN  /\ call' = [op |-> "mne_plot_source_estimation", raised |-> r.raised,
                        args |-> a]
            /\ brain' = [activations |-> r.activations]
            /\ UNCHANGED <<visuals, signal>>

\* ---------------------------------------------------------- specifications

NoCall == [op |-> "none", raised |-> None, args |-> <<>>]

\* The constructor of Visuals, on every data, time and axis.
InitVisuals ==
    /\ call = NoCall
    /\ visuals = NoObject
    /\ signal = NoObject
    /\ brain = NoObject
NextVisuals == VisualsNew
SpecVisuals == InitVisuals /\ [][NextVisuals]_vars

\* A signal browser built on 3-d data (every shape up to MaxDim, and one
\* with a dimension of WideDim) with the time on any of the three axes, then
\* browsing.
InitSignal ==
    \E data \in {NdArray(shape) : shape \in Shapes3 \cup {<<1, 1, WideDim>>}},
       axis \in 0..2 :
        LET r == NewVisuals(data, <<>>, axis)
        IN  /\ call = [op |-> "Visuals", raised |-> r.raised,
                       args |-> [data |-> data, time |-> <<>>, axis |-> axis]]
            /\ visuals = r.visuals
            /\ signal = r.signal
            /\ brain = NoObject
NextSignal == Browse
SpecSignal == InitSignal /\ [][NextSignal]_vars

\* A signal browser on a grid of 1 x 2 signals of 2 samples: any calls of
\* set_data, and an annotation of the signal shown.
Init ==
    LET data == NdArray(<<1, 2, 2>>)
        r    == NewVisuals(data, <<>>, 2)
    IN  /\ call = [op |-> "Visuals", raised |-> r.raised,
                   args |-> [data |-> data, time |-> <<>>, axis |-> 2]]
        /\ visuals = r.visuals
        /\ signal = r.signal
        /\ brain = NoObject
Next == SetData \/ AnnotateCurrent
Spec == Init /\ [][Next]_vars

\* A signal browser on a grid of 1 x 2 signals, then any annotation calls
\* and moves between the two signals.
InitAnnotations ==
    Init
NextAnnotations == AddAnnotations \/ SelectAnnotation \/ SetText \/ SelectSignal
SpecAnnotations == InitAnnotations /\ [][NextAnnotations]_vars

\* Calls of mne_plot_source_estimation.
InitMne ==
    /\ call = NoCall
    /\ visuals = NoObject
    /\ signal = NoObject
    /\ brain = NoObject
NextMne == MnePlot
SpecMne == InitMne /\ [][NextMne]_vars

\* ------------------------------------------------------------------- claims

\* The arguments of the constructor call, and the number of dimensions and
\* the shape of the data given to it.
CtorArgs == call.args
CtorNdim == Len(call.args.data.shape)
CtorShape == call.args.data.shape

\* C1: constructing Visuals with a time vector whose length is not
\* data.shape[axis] raises the ValueError of the time check, for every valid
\* axis (-1 or 0..ndim-1); with time None no error is raised and the time
\* vector generated has data.shape[axis] samples.
C1_TimeLengthChecked ==
    (call.op = "Visuals" /\ CtorArgs.axis \in (-1)..(CtorNdim - 1)) =>
        /\ (CtorArgs.time # <<>>
            /\ NpLen(CtorArgs.time[1]) # PyGet(CtorShape, CtorArgs.axis))
           => call.raised = "ValueError: time"
        /\ CtorArgs.time = <<>>
           => /\ call.raised = None
              /\ NpLen(signal.time) = PyGet(CtorShape, CtorArgs.axis)

\* C2: constructing Visuals raises the ValueError of the axis check for every
\* axis bigger than data.ndim - 1; axis -1 is accepted (no error about the
\* axis) and means the last dimension: the time check is made against the
\* length of the last dimension, and the object built has the time on the
\* last axis of the stored data, which is as long as the last dimension of
\* the data given.
C2_AxisChecked ==
    call.op = "Visuals" =>
        /\ CtorArgs.axis > CtorNdim - 1 => call.raised = "ValueError: axis"
        /\ CtorArgs.axis = -1 =>
            /\ call.raised \in {None, "ValueError: time"}
            /\ call.raised = "ValueError: time" =>
                   NpLen(CtorArgs.time[1]) > CtorShape[CtorNdim]
            /\ call.raised = None =>
                /\ signal.axis = 2
                /\ visuals.data.shape[3] = CtorShape[CtorNdim]
                /\ CtorArgs.time = <<>> => NpLen(signal.time) = CtorShape[CtorNdim]

\* C2's case: 2-d data built with axis -1, the time on the last axis.
C2_Witness ==
    /\ call.op = "Visuals"
    /\ CtorArgs.axis = -1
    /\ CtorNdim = 2
    /\ CtorShape[1] # CtorShape[2]
    /\ call.raised = None
    /\ signal.axis = 2

\* The sizes of the dimensions of the stored data other than the one at the
\* 0-based position axis.
OtherDims(shape, axis) ==
    IF axis = 0 THEN <<shape[2], shape[3]>>
    ELSE IF axis = 1 THEN <<shape[1], shape[3]>>
    ELSE <<shape[1], shape[2]>>

\* C8: whenever the constructor returns, the stored data has 3 dimensions,
\* the axis of the signal is in 0..2 and is the dimension of the stored data
\* that is as long as data.shape[axis] of the data given, and _allidx lists
\* every (row, column) of the other two dimensions exactly once.
C8_StoredAs3d ==
    (call.op = "Visuals" /\ call.raised = None) =>
        /\ Len(visuals.data.shape) = 3
        /\ signal.axis \in 0..2
        /\ visuals.data.shape[signal.axis + 1] = PyGet(CtorShape, CtorArgs.axis)
        /\ LET sh == OtherDims(visuals.data.shape, signal.axis)
           IN  \A r \in 0..(sh[1] - 1), c \in 0..(sh[2] - 1) :
                   Cardinality({k \in 1..Len(signal.allidx) :
                                    signal.allidx[k] = <<r, c>>}) = 1
        /\ LET sh == OtherDims(visuals.data.shape, signal.axis)
           IN  Len(signal.allidx) = sh[1] * sh[2]

\* The slice of the stored data along the time axis at the (row, column)
\* pair: the element at each time t, the pair filling the other two
\* dimensions in order.
SliceAt(data, axis, pair) ==
    LET at(t) == IF axis = 0 THEN <<t, pair[1], pair[2]>>
                 ELSE IF axis = 1 THEN <<pair[1], t, pair[2]>>
                 ELSE <<pair[1], pair[2], t>>
    IN  [t \in 1..data.shape[axis + 1] |->
            data.flat[FlatPos(data.shape, at(t - 1)) + 1]]

\* C3: set_data raises ValueError for every index outside 0 .. sh[0]*sh[1]-1,
\* and for every index inside it returns having drawn the slice of the data
\* along the time axis at the pair _allidx[index].
C3_IndexChecked ==
    call.op = "set_data" =>
        LET index == call.args.index
        IN  IF index \in ValidIndexes(signal)
            THEN /\ call.raised = None
                 /\ signal.drawn.data =
                        SliceAt(visuals.data, signal.axis, signal.allidx[index + 1])
            ELSE call.raised = "ValueError"

\* The pieces of a signal's name between its brackets, cut at ', '.
NamePieces(name) == StrSplit(SubSeq(name, 2, Len(name) - 1), CommaSpace, <<>>)

\* C7: for every time axis in 0..2 and every index in 0 .. sh[0]*sh[1]-1,
\* str(signal) is '(' and ')' around three pieces separated by ', ', the
\* piece at position axis being ':' and the other two the row and the column
\* in decimal; the signals of the other valid indices have other names; and
\* _get_signal_index(str(signal)) returns the selected index.
C7_StrRoundTrip ==
    (signal # NoObject /\ signal.index \in ValidIndexes(signal)) =>
        LET name   == SignalStr(signal)
            pieces == NamePieces(name)
            pair   == signal.allidx[signal.index + 1]
            rest   == SelectSeq(pieces, LAMBDA p : p # <<":">>)
        IN  /\ Head(name) = "(" /\ name[Len(name)] = ")"
            /\ Len(pieces) = 3
            /\ pieces[signal.axis + 1] = <<":">>
            /\ rest = <<IntStr(pair[1]), IntStr(pair[2])>>
            /\ \A j \in ValidIndexes(signal) :
                   j # signal.index => SignalStr([signal EXCEPT !.index = j]) # name
            /\ get_signal_index(signal, name) =
                   [raised |-> None, value |-> signal.index]

\* C7's case: a signal of the wide row, its column of two digits, selected
\* by a set_data that returned, with the time on the first axis.
C7_Witness ==
    /\ call.op = "set_data"
    /\ call.raised = None
    /\ signal.axis = 0
    /\ signal.index >= 10
    /\ get_signal_index(signal, SignalStr(signal)).value = signal.index

\* The draw primitives that are visible.
VisibleForms(self) ==
    {f \in Forms : IF f = "line" THEN self.line_visible
                   ELSE IF f = "marker" THEN self.mark_visible
                   ELSE self.hist_visible}

\* C4: after every set_data call that returns, made with one of the three
\* forms, exactly one of the three draw primitives is visible and it is the
\* one form names, whatever the calls made before.
C4_OneFormVisible ==
    (call.op = "set_data" /\ call.raised = None /\ call.args.form \in Forms) =>
        /\ signal.form = call.args.form
        /\ VisibleForms(signal) = {call.args.form}

\* C4's case: a marker plot shown after a line plot with a threshold (the
\* threshold line stays as the line call left it).
C4_Witness ==
    /\ call.op = "set_data"
    /\ call.raised = None
    /\ call.args.form = "marker"
    /\ signal.th_visible
    /\ VisibleForms(signal) = {"marker"}

\* C9: a set_data call that raises ValueError for an out-of-range index
\* leaves the object as it was: form, the selected index, the stored colour,
\* line width, bins, symbol and size, the camera rectangle and which visuals
\* are visible.
C9_RaiseLeavesState ==
    [][(call'.op = "set_data" /\ call'.raised = "ValueError") =>
          /\ signal'.form = signal.form
          /\ signal'.index = signal.index
          /\ signal'.color = signal.color
          /\ signal'.lw = signal.lw
          /\ signal'.nbins = signal.nbins
          /\ signal'.symbol = signal.symbol
          /\ signal'.size = signal.size
          /\ signal'.rect = signal.rect
          /\ VisibleForms(signal') = VisibleForms(signal)
          /\ signal'.th_visible = signal.th_visible
          /\ signal'.annot_mark_visible = signal.annot_mark_visible
          /\ signal'.annot_text_visible = signal.annot_text_visible]_vars

\* C5: add_activation is only called with as many data values as vertices;
\* an array active_data of another length than the active vertices adds no
\* activation and raises nothing; the data of an stc file, when added, has
\* the length of the active vertices of the hemisphere.
C5_ActivationLengths ==
    call.op = "mne_plot_source_estimation" =>
        /\ \A k \in 1..Len(brain.activations) :
               brain.activations[k].data = brain.activations[k].vertices
        /\ (call.args.active_data[1] = "ndarray"
            /\ call.args.active_data[2]
                   # ActiveVertLen(call.args.nvert, call.args.hemisphere.value))
           => (brain.activations = <<>> /\ call.raised = None)
        /\ (call.args.active_data[1] = "int" /\ brain.activations # <<>>)
           => brain.activations[1].data
                  = ActiveVertLen(call.args.nvert, call.args.hemisphere.value)

\* The rows of the signal's annotations whose stored (x, y) is xy.
RowsAt(self, name, xy) ==
    IF name \in DOMAIN self.annotations
    THEN {row \in 1..Len(self.annotations[name]) : self.annotations[name][row] = xy}
    ELSE {}

\* C6: select_annotation(signal, coord) of an annotation that was added shows
\* the text stored for it, and of a coord never added to the signal hides the
\* text; set_text(signal, coord, t) replaces the text of that annotation and
\* of no other, and changes nothing for a coord never added; the row that
\* _get_coord_index returns is a row whose stored (x, y) is coord.  Where a
\* coord was added to a signal more than once, "that annotation" is not one
\* row and nothing is asked of select_annotation and set_text.
C6_AnnotationLookup ==
    [][/\ call'.op = "select_annotation" =>
            LET rows == RowsAt(signal, call'.args.signal, call'.args.xy)
            IN  IF Cardinality(rows) = 1
                THEN /\ signal'.annot_text_visible
                     /\ \E row \in rows :
                            signal'.annot_text =
                                signal.annotations_txt[call'.args.signal][row]
                ELSE rows = {} => ~signal'.annot_text_visible
       /\ call'.op = "set_text" =>
            LET rows == RowsAt(signal, call'.args.signal, call'.args.xy)
            IN  IF Cardinality(rows) = 1
                THEN \E row \in rows :
                         signal'.annotations_txt =
                             [signal.annotations_txt
                                  EXCEPT ![call'.args.signal][row] = call'.args.text]
                ELSE rows = {} => signal'.annotations_txt = signal.annotations_txt
       /\ \A name \in DOMAIN signal.annotations, xy \in CoordArgs :
            LET r == get_coord_index(signal, name, CoordTuple(xy))
            IN  ~r.isNone => signal.annotations[name][r.row + 1] = xy
      ]_vars

====
